---- MODULE Spec2Model ----
(***************************************************************************)
(* Model of contactdb_api/serve.py: the batch commit endpoint              *)
(* commit_pending_org_changes, the writers _create_org, _update_org and    *)
(* _delete_org, the reconcilers, the aggregate reader and the read         *)
(* endpoints for one organisation and one asn, on top of one database      *)
(* connection with an open transaction.                                    *)
(*                                                                         *)
(* The connection is modelled by two copies of the manual tables:          *)
(*   db         what the statements of the open transaction see,           *)
(*   persisted  what has been committed.                                   *)
(* commit() copies db to persisted, rollback() copies persisted to db.     *)
(*                                                                         *)
(* Python values: None is the string None, a dict is a function whose      *)
(* DOMAIN is its key set, a list is a sequence.  Column names are those of *)
(* the statements of __db_query_org and _create_org (organisation_id is    *)
(* "the plain id name for all table variants", serve.py line 264).         *)
(***************************************************************************)
EXTENDS Integers, Sequences, FiniteSets, TLC

\* ---------------------------------------------------------------- bounds
MaxBatches  == 2     \* batch commits per behaviour
MaxBatchLen == 2     \* items per batch
MaxInitOrgs == 2     \* organisation rows in the initial database

\* ------------------------------------------------------- python helpers
None == "None"
NoId == 0            \* a writer that returns nothing (Python None)
NoneList == <<None>> \* None where a list of annotations is expected: a value
                     \* that is no list of annotation texts, [] included

Has(d, k) == k \in DOMAIN d

Range(s) == {s[i] : i \in 1..Len(s)}

Min(S) == CHOOSE x \in S : \A y \in S : x <= y

RECURSIVE SetToSeq(_)
SetToSeq(S) ==
  IF S = {} THEN <<>>
  ELSE LET x == CHOOSE y \in S : TRUE IN <<x>> \o SetToSeq(S \ {x})

\* ------------------------------------------------- connection, statements
\* A context is the state of the connection while a request runs.
\*   db, persisted : the tables, see above
\*   org_seq, contact_seq : the generators of organisation_id / contact_id
\*   nstmt  : statements executed by the current request
\*   trace  : commit / rollback calls of the current request, in order

commit_transaction(ctx) ==
  [ctx EXCEPT !.persisted = ctx.db, !.trace = Append(@, "commit")]

\* rollback() is not called
rollback_skipped(ctx) == ctx

rollback_transaction(ctx) ==
  [ctx EXCEPT !.db = ctx.persisted, !.trace = Append(@, "rollback")]

\* _db_query: one statement, then a commit unless end_transaction is False
db_query(ctx, end_transaction) ==
  LET c1 == [ctx EXCEPT !.nstmt = @ + 1]
  IN IF end_transaction THEN commit_transaction(c1) ELSE c1

\* _db_manipulate: one write statement producing the tables newdb
db_manipulate(ctx, newdb, end_transaction) ==
  LET c1 == [ctx EXCEPT !.nstmt = @ + 1, !.db = newdb]
  IN IF end_transaction THEN commit_transaction(c1) ELSE c1

\* outcome of a call that may raise
Return(ctx, v) == [ctx |-> ctx, raised |-> FALSE, err |-> "", msg |-> "", value |-> v]
Raise(ctx, e, m) == [ctx |-> ctx, raised |-> TRUE, err |-> e, msg |-> m, value |-> NoId]

\* ------------------------------------------------------ aggregate reader
\* __db_query_asn_annotations: array_agg over the annotation rows of asn;
\* array_agg over no rows is NULL, so the result is None, not the empty list.
\* The value is [none |-> TRUE] or [none |-> FALSE, annos |-> the set].
db_query_asn_annotations(ctx, asn, end_transaction) ==
  LET rows == {r \in ctx.db.autonomous_system_annotation : r.asn = asn}
      c1   == db_query(ctx, end_transaction)
  IN [ctx   |-> c1,
      none  |-> rows = {},
      annos |-> {r.annotation : r \in rows}]

\* the loop of __db_query_org over the asn rows of the organisation
\* (lines 340-350): one SELECT per asn with the caller's end_transaction
\* and, when the asn has annotation rows, __db_query_asn_annotations(asn)
\* called WITHOUT end_transaction, i.e. with its default True.
RECURSIVE query_org_asn_loop(_, _, _)
query_org_asn_loop(ctx, asns, end_transaction) ==
  IF asns = <<>> THEN [ctx |-> ctx, asns |-> <<>>]
  ELSE
    LET asn  == Head(asns)
        c1   == db_query(ctx, end_transaction)
        rows == {r \in ctx.db.autonomous_system_annotation : r.asn = asn.asn}
        q    == db_query_asn_annotations(c1, asn.asn, TRUE)
        c2   == IF rows # {} THEN q.ctx ELSE c1
        row  == IF rows # {}
                  THEN [organisation_id |-> asn.organisation_id,
                        asn |-> asn.asn,
                        annotations |-> SetToSeq(q.annos)]
                  ELSE asn
        rest == query_org_asn_loop(c2, Tail(asns), end_transaction)
    IN [ctx |-> rest.ctx, asns |-> <<row>> \o rest.asns]

\* __db_query_org(org_id, "", end_transaction) on the manual tables.
\* Returns the context and the aggregate; the aggregate is the empty dict
\* when not exactly one organisation row has organisation_id = org_id.
db_query_org(ctx, org_id, end_transaction) ==
  LET results == {r \in ctx.db.organisation : r.organisation_id = org_id}
      c1      == db_query(ctx, FALSE)
  IN IF Cardinality(results) # 1
       THEN [ctx |-> c1, org |-> [k \in {} |-> None]]
       ELSE
         LET row      == CHOOSE r \in results : TRUE
             asns     == SetToSeq({l \in ctx.db.organisation_to_asn :
                                     l.organisation_id = org_id})
             c2       == db_query(c1, FALSE)
             contacts == SetToSeq({c \in ctx.db.contact :
                                     c.organisation_id = org_id})
             \* contacts, national certs, networks, fqdns, annotations
             c3       == db_query(db_query(db_query(db_query(db_query(
                           c2, end_transaction), end_transaction),
                           end_transaction), end_transaction),
                           end_transaction)
             \* array_agg over the annotation rows of the organisation: NULL,
             \* i.e. None, when there is none (line 337)
             annos    == {a.annotation : a \in
                            {r \in ctx.db.organisation_annotation :
                               r.organisation_id = org_id}}
             loop     == query_org_asn_loop(c3, asns, end_transaction)
         IN [ctx |-> loop.ctx,
             org |-> [organisation_id |-> row.organisation_id,
                      name            |-> row.name,
                      sector_id       |-> row.sector_id,
                      comment         |-> row.comment,
                      ripe_org_hdl    |-> row.ripe_org_hdl,
                      ti_handle       |-> row.ti_handle,
                      first_handle    |-> row.first_handle,
                      asns            |-> loop.asns,
                      contacts        |-> contacts,
                      nationalcerts   |-> <<>>,
                      networks        |-> <<>>,
                      fqdns           |-> <<>>,
                      annotations     |-> IF annos = {} THEN NoneList
                                          ELSE SetToSeq(annos)]]

\* __db_query_asn(asn, "", end_transaction): the first link row of the asn
\* with the answer of __db_query_asn_annotations attached, or None
db_query_asn(ctx, asn, end_transaction) ==
  LET results == {l \in ctx.db.organisation_to_asn : l.asn = asn}
      c1      == db_query(ctx, end_transaction)
      q       == db_query_asn_annotations(c1, asn, end_transaction)
      row     == CHOOSE l \in results :
                   \A m \in results : l.organisation_id <= m.organisation_id
  IN IF results = {} THEN [ctx |-> c1, found |-> FALSE, asn |-> None]
     ELSE [ctx |-> q.ctx, found |-> TRUE,
           asn |-> [organisation_id |-> row.organisation_id,
                    asn             |-> row.asn,
                    annotations     |-> IF q.none THEN NoneList
                                        ELSE SetToSeq(q.annos)]]

\* __db_query_org(org_id, "_automatic", end_transaction): the same
\* statements on the tables organisation_automatic,
\* organisation_to_asn_automatic and contact_automatic; the id column is
\* renamed to organisation_id (lines 264-267) and no annotations are added
db_query_org_automatic(ctx, org_id, end_transaction) ==
  LET results == {r \in ctx.db.organisation_automatic :
                    r.organisation_automatic_id = org_id}
      c1      == db_query(ctx, FALSE)
  IN IF Cardinality(results) # 1
       THEN [ctx |-> c1, org |-> [k \in {} |-> None]]
       ELSE
         LET row == CHOOSE r \in results : TRUE
             c3  == db_query(db_query(db_query(db_query(db_query(
                      c1, FALSE), end_transaction), end_transaction),
                      end_transaction), end_transaction)
         IN [ctx |-> c3,
             org |-> [organisation_id |-> row.organisation_automatic_id,
                      name            |-> row.name,
                      sector_id       |-> row.sector_id,
                      comment         |-> row.comment,
                      ripe_org_hdl    |-> row.ripe_org_hdl,
                      ti_handle       |-> row.ti_handle,
                      first_handle    |-> row.first_handle,
                      asns            |-> SetToSeq({l \in ctx.db.organisation_to_asn_automatic :
                                                      l.organisation_automatic_id = org_id}),
                      contacts        |-> SetToSeq({c \in ctx.db.contact_automatic :
                                                      c.organisation_automatic_id = org_id}),
                      nationalcerts   |-> <<>>,
                      networks        |-> <<>>,
                      fqdns           |-> <<>>]]

\* ------------------------------------------------------------ reconcilers
\* n write statements in the open transaction whose joint effect is newdb
db_manipulate_n(ctx, n, newdb) ==
  [ctx EXCEPT !.nstmt = @ + n, !.db = newdb]

\* lines 480-494: add the missing annotations of asn_id, remove the
\* superfluous ones; one statement per annotation
fix_annotations(ctx, asn_id, annos_should, annos_are) ==
  LET missing     == {i \in 1..Len(annos_should) : annos_should[i] \notin annos_are}
      superfluous == annos_are \ Range(annos_should)
      added       == {[asn |-> asn_id, annotation |-> annos_should[i]] : i \in missing}
  IN db_manipulate_n(ctx, Cardinality(missing) + Cardinality(superfluous),
       [ctx.db EXCEPT !.autonomous_system_annotation =
          {r \in @ \cup added : ~(r.asn = asn_id /\ r.annotation \in superfluous)}])

\* lines 496-509: check the link of asn_id to the org, add it if necessary
link_asn(ctx, org_id, asn_id) ==
  IF {l \in ctx.db.organisation_to_asn :
        l.organisation_id = org_id /\ l.asn = asn_id} = {}
    THEN db_manipulate(db_query(ctx, FALSE),
           [ctx.db EXCEPT !.organisation_to_asn =
              @ \cup {[organisation_id |-> org_id, asn |-> asn_id]}],
           FALSE)
    ELSE db_query(ctx, FALSE)

\* lines 473-509, the body of the loop for one desired asn, given the
\* answer q of __db_query_asn_annotations(asn_id, False)
fix_asn(q, asn, org_id) ==
  \* "a not in annos_are" / "for a in annos_are" with annos_are None
  IF q.none THEN Raise(q.ctx, "TypeError", "NoneType is not iterable")
  ELSE Return(link_asn(fix_annotations(q.ctx, asn["asn"], asn["annotations"],
                                       q.annos),
                       org_id, asn["asn"]),
              NoId)

\* __fix_asns_to_org, the loop over the desired asns (lines 472-509)
RECURSIVE fix_asns_loop(_, _, _)
fix_asns_next(r, asns, org_id) ==
  IF r.raised THEN r ELSE fix_asns_loop(r.ctx, asns, org_id)

fix_asns_loop(ctx, asns, org_id) ==
  IF asns = <<>> THEN Return(ctx, NoId)
  ELSE IF ~Has(Head(asns), "asn") THEN Raise(ctx, "KeyError", "asn")
  ELSE IF ~Has(Head(asns), "annotations")
    THEN Raise(ctx, "KeyError", "annotations")
  ELSE fix_asns_next(
         fix_asn(db_query_asn_annotations(ctx, Head(asns)["asn"], FALSE),
                 Head(asns), org_id),
         Tail(asns), org_id)

\* the asn numbers of a desired list: [asn["asn"] for asn in asns]
asn_numbers(asns) == {asns[i]["asn"] : i \in 1..Len(asns)}

\* lines 511-518: remove links between asns and org that should not be
\* there anymore
unlink_other_asns(ctx, asns, org_id) ==
  db_manipulate(ctx,
    [ctx.db EXCEPT !.organisation_to_asn =
       {l \in @ : ~(l.organisation_id = org_id /\ l.asn \notin asn_numbers(asns))}],
    FALSE)

\* the annotations of unlinked asns are left
remove_unlinked_kept(ctx) == db_query(ctx, FALSE)

\* the DELETE has no WHERE clause
remove_every_annotation(ctx) ==
  db_manipulate(ctx, [ctx.db EXCEPT !.autonomous_system_annotation = {}], FALSE)

\* lines 520-525: remove all annotations that are not linked to anymore
remove_unlinked_annotations(ctx) ==
  db_manipulate(ctx,
    [ctx.db EXCEPT !.autonomous_system_annotation =
       {a \in @ : a.asn \in {l.asn : l \in ctx.db.organisation_to_asn}}],
    FALSE)

\* lines 511-525, given the outcome of the loop
fix_asns_cleanup(loop, asns, org_id) ==
  IF loop.raised THEN loop
  ELSE Return(remove_unlinked_annotations(
                unlink_other_asns(loop.ctx, asns, org_id)),
              NoId)

\* __fix_asns_to_org
fix_asns_to_org(ctx, asns, org_id) ==
  fix_asns_cleanup(fix_asns_loop(ctx, asns, org_id), asns, org_id)

contact_needed_attribs ==
  <<"firstname", "lastname", "tel", "openpgp_fpr", "email", "comment">>

\* a None passes the test
contact_unset_absent(contact) ==
  {i \in 1..Len(contact_needed_attribs) :
     ~Has(contact, contact_needed_attribs[i])}

\* the attributes of contact_needed_attribs that are absent or None
contact_unset(contact) ==
  {i \in 1..Len(contact_needed_attribs) :
     \/ ~Has(contact, contact_needed_attribs[i])
     \/ contact[contact_needed_attribs[i]] = None}

\* the row of the INSERT of lines 578-585 with its generated id
contact_new_row(contact, org_id, id) ==
  [contact_id      |-> id,
   organisation_id |-> org_id,
   firstname       |-> contact["firstname"],
   lastname        |-> contact["lastname"],
   tel             |-> contact["tel"],
   openpgp_fpr     |-> contact["openpgp_fpr"],
   email           |-> contact["email"],
   comment         |-> contact["comment"]]

\* lines 576-586: INSERT INTO contact
insert_contact(ctx, contact, org_id) ==
  db_manipulate([ctx EXCEPT !.contact_seq = @ + 1],
    [ctx.db EXCEPT !.contact =
       @ \cup {contact_new_row(contact, org_id, ctx.contact_seq)}],
    FALSE)

\* __fix_contacts_to_org, the loop recreating the contacts (lines 569-586)
RECURSIVE fix_contacts_loop(_, _, _)
fix_contacts_loop(ctx, contacts, org_id) ==
  IF contacts = <<>> THEN Return(ctx, NoId)
  ELSE IF contact_unset(Head(contacts)) # {}
    THEN Raise(ctx, "CommitError",
               contact_needed_attribs[Min(contact_unset(Head(contacts)))]
                 \o " not set")
  ELSE fix_contacts_loop(insert_contact(ctx, Head(contacts), org_id),
                         Tail(contacts), org_id)

\* the stored contacts are kept
fix_contacts_keep(ctx, contacts, org_id) ==
  fix_contacts_loop(db_query(ctx, FALSE), contacts, org_id)

\* __fix_contacts_to_org: first delete all contacts for the org, then
\* recreate all that we want to have now
fix_contacts_to_org(ctx, contacts, org_id) ==
  fix_contacts_loop(
    db_manipulate(ctx,
      [ctx.db EXCEPT !.contact = {c \in @ : c.organisation_id # org_id}],
      FALSE),
    contacts, org_id)

\* ---------------------------------------------------------------- writers
org_needed_attribs ==
  <<"name", "comment", "ripe_org_hdl", "ti_handle", "first_handle">>

\* the attributes of org_needed_attribs that the payload does not carry
org_absent(org) ==
  {i \in 1..Len(org_needed_attribs) : ~Has(org, org_needed_attribs[i])}

\* None is not replaced
org_attrib_raw(org, attrib) == org[attrib]

\* org[attrib] after the loop of lines 610-615 replaced None by ''
org_attrib(org, attrib) == IF org[attrib] = None THEN "" ELSE org[attrib]

\* the empty string is not taken for a missing sector
sector_is_null_strict(org) ==
  \/ ~Has(org, "sector_id")
  \/ org["sector_id"] = None

\* lines 628-633: sector omitted, None or '' is compared with IS NULL
\* and stored as NULL
sector_is_null(org) ==
  \/ ~Has(org, "sector_id")
  \/ org["sector_id"] = None
  \/ org["sector_id"] = ""

org_sector(org) == IF sector_is_null(org) THEN None ELSE org["sector_id"]

\* the sector is not part of the WHERE clause
org_row_matches_no_sector(o, org) ==
  /\ o.name = org_attrib(org, "name")
  /\ o.comment = org_attrib(org, "comment")
  /\ o.ripe_org_hdl = org_attrib(org, "ripe_org_hdl")
  /\ o.ti_handle = org_attrib(org, "ti_handle")
  /\ o.first_handle = org_attrib(org, "first_handle")

\* a missing sector is compared with "= NULL", which no row satisfies
org_row_matches_eq_null(o, org) ==
  /\ o.name = org_attrib(org, "name")
  /\ o.comment = org_attrib(org, "comment")
  /\ o.ripe_org_hdl = org_attrib(org, "ripe_org_hdl")
  /\ o.ti_handle = org_attrib(org, "ti_handle")
  /\ o.first_handle = org_attrib(org, "first_handle")
  /\ ~sector_is_null(org)
  /\ o.sector_id = org["sector_id"]

\* the WHERE clause of the SELECT of lines 620-633
org_row_matches(o, org) ==
  /\ o.name = org_attrib(org, "name")
  /\ o.comment = org_attrib(org, "comment")
  /\ o.ripe_org_hdl = org_attrib(org, "ripe_org_hdl")
  /\ o.ti_handle = org_attrib(org, "ti_handle")
  /\ o.first_handle = org_attrib(org, "first_handle")
  /\ IF sector_is_null(org)
       THEN o.sector_id = None
       ELSE o.sector_id = org["sector_id"]

\* the row of the INSERT of lines 642-649 with its generated id
org_new_row(org, id) ==
  [organisation_id |-> id,
   name            |-> org_attrib(org, "name"),
   sector_id       |-> org_sector(org),
   comment         |-> org_attrib(org, "comment"),
   ripe_org_hdl    |-> org_attrib(org, "ripe_org_hdl"),
   ti_handle       |-> org_attrib(org, "ti_handle"),
   first_handle    |-> org_attrib(org, "first_handle")]

\* the writer returns id unless the reconciler outcome r is a raise
return_id(r, id) == IF r.raised THEN r ELSE Return(r.ctx, id)

\* line 654 (and 680), given the outcome a of __fix_asns_to_org
reconcile_contacts(a, org, org_id) ==
  IF a.raised THEN a
  ELSE IF ~Has(org, "contacts") THEN Raise(a.ctx, "KeyError", "contacts")
  ELSE fix_contacts_to_org(a.ctx, org["contacts"], org_id)

\* lines 653-654 (and 679-680): reconcile asns, then contacts
reconcile(ctx, org, org_id) ==
  IF ~Has(org, "asns") THEN Raise(ctx, "KeyError", "asns")
  ELSE reconcile_contacts(fix_asns_to_org(ctx, org["asns"], org_id), org, org_id)

\* lines 653-656 of _create_org
create_reconcile(ctx, org, new_org_id) ==
  return_id(reconcile(ctx, org, new_org_id), new_org_id)

\* the row is inserted into the automatic table
insert_org_automatic(ctx, org) ==
  db_query([ctx EXCEPT !.org_seq = @ + 1,
                       !.db.organisation_automatic = @ \cup
                          {[organisation_automatic_id |-> ctx.org_seq,
                            name |-> org_attrib(org, "name"),
                            sector_id |-> org_sector(org),
                            comment |-> org_attrib(org, "comment"),
                            ripe_org_hdl |-> org_attrib(org, "ripe_org_hdl"),
                            ti_handle |-> org_attrib(org, "ti_handle"),
                            first_handle |-> org_attrib(org, "first_handle")]}],
           FALSE)

\* lines 642-651: INSERT INTO organisation ... RETURNING organisation_id
insert_org(ctx, org) ==
  db_query([ctx EXCEPT !.org_seq = @ + 1,
                       !.db.organisation = @ \cup {org_new_row(org, ctx.org_seq)}],
           FALSE)

\* the rows the SELECT returned are ignored
create_found_insert(ctx, org, found) ==
  create_reconcile(insert_org(ctx, org), org, ctx.org_seq)

\* lines 636-656, given the rows the SELECT returned
create_found(ctx, org, found) ==
  IF Cardinality(found) > 1
    THEN Raise(ctx, "CommitError", "More than one organisation row like")
  ELSE IF Cardinality(found) = 1
    THEN create_reconcile(ctx, org, (CHOOSE o \in found : TRUE).organisation_id)
  ELSE create_reconcile(insert_org(ctx, org), org, ctx.org_seq)

\* _create_org
create_org(ctx, org) ==
  IF org_absent(org) # {}
    THEN Raise(ctx, "CommitError",
               org_needed_attribs[Min(org_absent(org))] \o " not set")
  ELSE IF org_attrib(org, "name") = ""
    THEN Raise(ctx, "CommitError", "Name of the organisation must be provided.")
  ELSE create_found(db_query(ctx, FALSE), org,
                    {o \in ctx.db.organisation : org_row_matches(o, org)})

\* lines 682-696, given the outcome c of the reconcilers
update_row(c, org) ==
  IF c.raised THEN c
  ELSE IF ~Has(org, "sector_id") THEN Raise(c.ctx, "KeyError", "sector_id")
  \* UPDATE organisation ... WHERE id = %(id)s: the organisation table has
  \* no column id
  ELSE Raise([c.ctx EXCEPT !.nstmt = @ + 1], "QueryError",
             "column id does not exist")

\* lines 673-696, given the answer q of __db_query_org
update_found(q, org) ==
  IF ~Has(q.org, "id") \/ q.org["id"] # org["id"]
    THEN Raise(q.ctx, "CommitError", "Org to be updated not in db.")
  ELSE IF ~Has(org, "name") \/ org["name"] = None \/ org["name"] = ""
    THEN Raise(q.ctx, "CommitError", "Name of the organisation must be provided.")
  ELSE update_row(reconcile(q.ctx, org, org["id"]), org)

\* _update_org
update_org(ctx, org) ==
  IF ~Has(org, "id") THEN Raise(ctx, "KeyError", "id")
  ELSE update_found(db_query_org(ctx, org["id"], FALSE), org)

\* org_in_db == org of _delete_org: equality of two dicts
dict_equal(a, b) ==
  /\ DOMAIN a = DOMAIN b
  /\ \A k \in DOMAIN a : a[k] = b[k]

\* lines 712-725, given the answer q of __db_query_org
delete_found(q, org) ==
  IF ~dict_equal(q.org, org)
    THEN Raise(q.ctx, "CommitError", "Org to be deleted differs from db entry.")
  \* __remove_or_unlink_asns reads asn["number"], which no row read from
  \* organisation_to_asn carries
  ELSE IF org["asns"] # <<>> THEN Raise(q.ctx, "KeyError", "number")
  \* __remove_or_unlink_contacts: DELETE FROM role, a table of the schema
  \* in which contact did not carry organisation_id
  ELSE IF org["contacts"] # <<>>
    THEN Raise([q.ctx EXCEPT !.nstmt = @ + 1], "QueryError",
               "relation role does not exist")
  \* DELETE FROM organisation WHERE id = %s
  ELSE Raise([q.ctx EXCEPT !.nstmt = @ + 1], "QueryError",
             "column id does not exist")

\* _delete_org
delete_org(ctx, org) ==
  IF ~Has(org, "id") THEN Raise(ctx, "KeyError", "id")
  ELSE delete_found(db_query_org(ctx, org["id"], FALSE), org)

known_commands == {"create", "update", "delete"}

\* known_commands[command](org)
run_command(ctx, command, org) ==
  CASE command = "create" -> create_org(ctx, org)
    [] command = "update" -> update_org(ctx, org)
    [] command = "delete" -> delete_org(ctx, org)
    [] OTHER -> Raise(ctx, "KeyError", command)

\* ------------------------------------------------------- request payloads
\* The organisations a request may carry.  Base is a complete payload for
\* create; the others differ from it in one respect.
Base ==
  [name |-> "acme", comment |-> "", ripe_org_hdl |-> "", ti_handle |-> "",
   first_handle |-> "", asns |-> <<>>, contacts |-> <<>>]

With(org, k, v) == [x \in DOMAIN org \cup {k} |-> IF x = k THEN v ELSE org[x]]
Without(org, k) == [x \in DOMAIN org \ {k} |-> org[x]]

ContactOk ==
  [firstname |-> "", lastname |-> "", tel |-> "", openpgp_fpr |-> "",
   email |-> "a@b", comment |-> ""]
ContactNoEmail ==
  [firstname |-> "", lastname |-> "", tel |-> "", openpgp_fpr |-> "",
   comment |-> ""]
ContactNoTel == With(ContactOk, "tel", None)

Asn1x == [asn |-> 1, annotations |-> <<"x">>]

Named(i) == With(With(Base, "sector_id", None), "id", i)

\* a second contact, and an organisation of sector s1
ContactTwo ==
  [firstname |-> "", lastname |-> "", tel |-> "", openpgp_fpr |-> "",
   email |-> "c@d", comment |-> ""]
BaseS1 == With(Base, "sector_id", "s1")

\* an entry of a desired asn list
Asn(number, annotations) == [asn |-> number, annotations |-> annotations]

\* ------------------------------------------------------- stored databases
\* rows of the manual tables
OrgRow(id, sector) ==
  [organisation_id |-> id, name |-> "acme", sector_id |-> sector,
   comment |-> "", ripe_org_hdl |-> "", ti_handle |-> "", first_handle |-> ""]
Link(org_id, number) == [organisation_id |-> org_id, asn |-> number]
Anno(number, text) == [asn |-> number, annotation |-> text]
OrgAnno(org_id, text) == [organisation_id |-> org_id, annotation |-> text]
ContactRow(id, org_id, contact) ==
  [contact_id      |-> id,
   organisation_id |-> org_id,
   firstname       |-> contact["firstname"],
   lastname        |-> contact["lastname"],
   tel             |-> contact["tel"],
   openpgp_fpr     |-> contact["openpgp_fpr"],
   email           |-> contact["email"],
   comment         |-> contact["comment"]]

\* the rows of the automatic tables, which an import process owns: one
\* organisation with the values of organisation 1, an asn and a contact
AutomaticOrgs ==
  {[organisation_automatic_id |-> 1, name |-> "acme", sector_id |-> None,
    comment |-> "", ripe_org_hdl |-> "", ti_handle |-> "", first_handle |-> ""]}
AutomaticLinks == {[organisation_automatic_id |-> 1, asn |-> 1]}
AutomaticContacts ==
  {[contact_automatic_id |-> 1, organisation_automatic_id |-> 1,
    firstname |-> "", lastname |-> "", tel |-> "", openpgp_fpr |-> "",
    email |-> "a@b", comment |-> ""]}

Db(orgs, links, annos, org_annos, contacts) ==
  [organisation |-> orgs,
   organisation_to_asn |-> links,
   autonomous_system_annotation |-> annos,
   organisation_annotation |-> org_annos,
   contact |-> contacts,
   organisation_automatic |-> AutomaticOrgs,
   organisation_to_asn_automatic |-> AutomaticLinks,
   contact_automatic |-> AutomaticContacts]

\* one organisation without children
DbPlain == Db({OrgRow(1, None)}, {}, {}, {}, {})
\* two organisations that share asn 1
DbShared ==
  Db({OrgRow(1, None), OrgRow(2, "s1")}, {Link(1, 1), Link(2, 1)},
     {Anno(1, "x")}, {}, {})
\* one organisation that owns the only link to asn 1, and a contact
DbLast ==
  Db({OrgRow(1, None)}, {Link(1, 1)}, {}, {}, {ContactRow(1, 1, ContactOk)})
\* one organisation with an annotation of its own
DbAnnotated == Db({OrgRow(1, None)}, {}, {}, {OrgAnno(1, "n")}, {})
\* organisation 1 linked to the asns 1 and 3, organisation 2 to asn 2;
\* in DbDiffBare asn 2 has no annotation
DbDiff ==
  Db({OrgRow(1, None), OrgRow(2, "s1")}, {Link(1, 1), Link(1, 3), Link(2, 2)},
     {Anno(1, "x"), Anno(2, "y"), Anno(3, "z")}, {}, {})
DbDiffBare ==
  Db({OrgRow(1, None), OrgRow(2, "s1")}, {Link(1, 1), Link(1, 3), Link(2, 2)},
     {Anno(1, "x"), Anno(3, "z")}, {}, {})
\* two organisations with contacts
DbContacts ==
  Db({OrgRow(1, None), OrgRow(2, "s1")}, {}, {}, {},
     {ContactRow(1, 1, ContactOk), ContactRow(2, 1, ContactTwo),
      ContactRow(3, 2, ContactOk)})

\* the aggregates a client reads for organisation 1 (GET /org/manual/1)
\* from DbPlain, DbShared and DbLast before it sends a request about it
StoredPlain ==
  [organisation_id |-> 1, name |-> "acme", sector_id |-> None, comment |-> "",
   ripe_org_hdl |-> "", ti_handle |-> "", first_handle |-> "",
   asns |-> <<>>, contacts |-> <<>>, nationalcerts |-> <<>>, networks |-> <<>>,
   fqdns |-> <<>>, annotations |-> NoneList]
StoredShared ==
  With(StoredPlain, "asns",
       <<[organisation_id |-> 1, asn |-> 1, annotations |-> <<"x">>]>>)
StoredLast ==
  With(With(StoredPlain, "asns", <<Link(1, 1)>>),
       "contacts", <<ContactRow(1, 1, ContactOk)>>)

\* A family is the set of (command, organisation) pairs one behaviour draws
\* its batches from.
\*   absent_*, null_* : payloads probing the checks of lines 607-618
\*   sector           : payloads probing the search of lines 620-651
\*   children         : payloads with asns and contacts
\*   update, delete   : payloads naming an organisation, next to a create;
\*                      the updates repeat the create with the id of
\*                      organisation 1 or of the first row inserted
\*   stored           : deletes that send the aggregate read beforehand
\*   asns, contacts   : creates that reuse organisation 1 (or 2) with
\*                      another list of asns, of contacts
\*   read             : creates next to which the read endpoints are called
Families ==
  [absent_a |-> {<<"create", Without(Base, "name")>>,
                 <<"create", Without(Base, "comment")>>,
                 <<"create", Without(Base, "ripe_org_hdl")>>},
   absent_b |-> {<<"create", Without(Base, "ti_handle")>>,
                 <<"create", Without(Base, "first_handle")>>,
                 <<"create", Base>>},
   null_a   |-> {<<"create", With(Base, "name", None)>>,
                 <<"create", With(Base, "name", "")>>,
                 <<"create", With(Base, "comment", None)>>},
   null_b   |-> {<<"create", With(Base, "ripe_org_hdl", None)>>,
                 <<"create", With(Base, "ti_handle", None)>>,
                 <<"create", With(Base, "first_handle", None)>>},
   sector   |-> {<<"create", Base>>,
                 <<"create", With(Base, "sector_id", None)>>,
                 <<"create", With(Base, "sector_id", "")>>,
                 <<"create", With(Base, "sector_id", "s1")>>},
   children |-> {<<"create", With(Base, "asns", <<Asn1x>>)>>,
                 <<"create", With(Base, "contacts", <<ContactOk>>)>>,
                 <<"create", With(Base, "contacts", <<ContactOk, ContactNoEmail>>)>>,
                 <<"create", Without(Base, "asns")>>},
   update   |-> {<<"create", With(Base, "sector_id", None)>>,
                 <<"update", Named(1)>>,
                 <<"update", Named(MaxInitOrgs + 1)>>,
                 <<"update", With(Named(1), "name", "")>>},
   delete   |-> {<<"create", Base>>,
                 <<"delete", Named(1)>>,
                 <<"delete", Named(9)>>,
                 <<"update", Base>>},
   stored   |-> {<<"delete", StoredPlain>>,
                 <<"delete", With(StoredPlain, "id", 1)>>,
                 <<"delete", With(StoredShared, "id", 1)>>,
                 <<"delete", With(StoredLast, "id", 1)>>},
   asns     |-> {<<"create", With(Base, "asns",
                                  <<Asn(1, <<"x">>), Asn(2, <<"y">>)>>)>>,
                 <<"create", With(Base, "asns", <<Asn(1, <<"w">>)>>)>>,
                 <<"create", With(Base, "asns", <<Asn(1, <<"x">>), Asn(1, <<"x">>)>>)>>,
                 <<"create", Base>>},
   contacts |-> {<<"create", Base>>,
                 <<"create", With(Base, "contacts", <<ContactTwo>>)>>,
                 <<"create", With(Base, "contacts", <<ContactOk, ContactOk>>)>>,
                 <<"create", With(Base, "contacts", <<ContactOk, ContactNoTel>>)>>},
   read     |-> {<<"create", Base>>,
                 <<"create", With(BaseS1, "asns", <<Asn1x>>)>>}]

\* the organisation ids and asn numbers the read requests of a family ask for
ReadOrgs ==
  [f \in DOMAIN Families |-> IF f = "read" THEN {1, MaxInitOrgs + 1} ELSE {}]
ReadAsns ==
  [f \in DOMAIN Families |-> IF f = "read" THEN {1, 2} ELSE {}]

Column(items, c) == [i \in 1..Len(items) |-> items[i][c]]

\* well-formed bodies of a family: commands and orgs of the same length
GoodBodies ==
  [f \in DOMAIN Families |->
     {[commands |-> Column(items, 1), orgs |-> Column(items, 2)] :
        items \in UNION {[1..n -> Families[f]] : n \in 1..MaxBatchLen}}]

\* bodies that commit_pending_org_changes must reject (lines 811-833)
BadBodies ==
  {[k \in {} |-> <<>>],
   [commands |-> <<"create">>],
   [orgs |-> <<Base>>],
   [commands |-> <<>>, orgs |-> <<>>],
   [commands |-> <<"create">>, orgs |-> <<>>],
   [commands |-> <<>>, orgs |-> <<Base>>],
   [commands |-> <<"create", "create">>, orgs |-> <<Base>>],
   [commands |-> <<"create">>, orgs |-> <<Base, Base>>],
   [commands |-> <<"merge">>, orgs |-> <<Base>>],
   [commands |-> <<"create", "merge">>, orgs |-> <<Base, Base>>],
   [commands |-> <<"merge", "create">>, orgs |-> <<Base, Base>>]}

\* the bodies a behaviour of family f may send
Bodies == [f \in DOMAIN Families |-> GoodBodies[f] \cup BadBodies]

\* ------------------------------------------------------------------ state
VARIABLES
  persisted,    \* the committed manual tables
  db,           \* the manual tables as seen inside the open transaction
  org_seq,      \* next value of the organisation_id generator
  contact_seq,  \* next value of the contact_id generator
  family,       \* the family of payloads of this behaviour
  pc,           \* "idle" (no request, or the last one has returned),
                \* "run" (inside the try block) or "failed" (in except)
  body,         \* the body of the current (or, when idle, the last) request
  results,      \* the list results of commit_pending_org_changes
  dispatched,   \* the positions whose writer has been called, in call order
  nstmt,        \* statements executed by the current request
  trace,        \* commit / rollback calls of the current request
  error,        \* the exception caught by the current request, for the log
  response,     \* what the last request returned
  before,       \* persisted when the current request started
  created,      \* the rows (field values, id) that committed creates returned
  answer,       \* what the last read request since the last batch returned
  nbatches      \* batch requests handled so far

vars == <<persisted, db, org_seq, contact_seq, family, pc, body, results,
          dispatched, nstmt, trace, error, response, before, created, answer,
          nbatches>>

EmptyBody == [k \in {} |-> <<>>]
NoError == [err |-> "", msg |-> ""]
NoResponse == [status |-> "", reason |-> "", results |-> <<>>]
NoAnswer == [endpoint |-> "", status |-> ""]

\* ------------------------------------------------------ initial databases
\* sector None sorts before any other sector
SectorLeq(a, b) == a = None \/ a = b

\* organisation tables with the ids 1..n; the rows differ in the sector
\* only, rows without sector come first
InitOrgTables ==
  UNION {{ {OrgRow(i, sec[i]) : i \in 1..n} :
             sec \in {s \in [1..n -> {None, "s1"}] :
                        \A i \in 1..n, j \in 1..n : i <= j => SectorLeq(s[i], s[j])} }
         : n \in 0..MaxInitOrgs}

\* databases in which the organisations 1..k are linked to asn 1, every link
\* names an existing organisation and every annotation an asn that is linked
InitDatabases ==
  UNION {{[organisation |-> orgs,
           organisation_to_asn |-> {[organisation_id |-> i, asn |-> 1] : i \in 1..k},
           autonomous_system_annotation |-> annos,
           organisation_annotation |-> {},
           contact |-> {},
           organisation_automatic |-> AutomaticOrgs,
           organisation_to_asn_automatic |-> AutomaticLinks,
           contact_automatic |-> AutomaticContacts] :
            k \in 0..Cardinality(orgs),
            annos \in {{}, {[asn |-> 1, annotation |-> "x"]}}}
         : orgs \in InitOrgTables}

\* referential consistency of the manual tables
Consistent(d) ==
  /\ \A l \in d.organisation_to_asn :
       \E o \in d.organisation : o.organisation_id = l.organisation_id
  /\ \A a \in d.autonomous_system_annotation :
       \E l \in d.organisation_to_asn : l.asn = a.asn
  /\ \A c \in d.contact :
       \E o \in d.organisation : o.organisation_id = c.organisation_id
  /\ \A a \in d.organisation_annotation :
       \E o \in d.organisation : o.organisation_id = a.organisation_id

\* the databases the behaviours of a family start from: the families whose
\* payloads have no asns start without links, those with children from
\* databases of their own or from at most one organisation, update and
\* delete from every database
InitDatabasesOf ==
  [f \in DOMAIN Families |->
     CASE f = "stored"   -> {DbPlain, DbShared, DbLast}
       [] f = "asns"     -> {DbDiff, DbDiffBare, DbShared}
       [] f = "contacts" -> {DbContacts}
       [] f = "children" -> {d \in InitDatabases : Cardinality(d.organisation) <= 1}
       [] f \in {"absent_a", "absent_b", "null_a", "null_b", "sector"} ->
            {d \in InitDatabases : d.organisation_to_asn = {}}
       [] f = "read"     -> {DbPlain, DbShared, DbLast, DbAnnotated}
       [] OTHER          -> InitDatabases]

\* the id generator of contact has passed the ids of the stored rows
Max(S) == CHOOSE x \in S : \A y \in S : x >= y
InitContactSeq(d) == Max({0} \cup {c.contact_id : c \in d.contact}) + 1

Init ==
  /\ family \in DOMAIN Families
  /\ persisted \in {d \in InitDatabasesOf[family] : Consistent(d)}
  /\ db = persisted
  /\ org_seq = MaxInitOrgs + 1
  /\ contact_seq = InitContactSeq(persisted)
  /\ pc = "idle"
  /\ body = EmptyBody
  /\ results = <<>>
  /\ dispatched = <<>>
  /\ nstmt = 0
  /\ trace = <<>>
  /\ error = NoError
  /\ response = NoResponse
  /\ before = persisted
  /\ created = {}
  /\ answer = NoAnswer
  /\ nbatches = 0

\* ------------------------------------------- commit_pending_org_changes
\* the condition of lines 811-816
body_complete(b) ==
  /\ DOMAIN b # {}
  /\ Has(b, "commands")
  /\ Len(b["commands"]) > 0
  /\ Has(b, "orgs")
  /\ Len(b["orgs"]) > 0
  /\ Len(b["commands"]) = Len(b["orgs"])

\* only the first command is looked up
commands_known_first(b) == b["commands"][1] \in known_commands

\* the loop of lines 829-833
commands_known(b) ==
  \A i \in 1..Len(b["commands"]) : b["commands"][i] \in known_commands

Ctx ==
  [db |-> db, persisted |-> persisted, org_seq |-> org_seq,
   contact_seq |-> contact_seq, nstmt |-> nstmt, trace |-> trace]

\* lines 811-833 when a check fails: the request is answered at once
RejectBatch(b) ==
  /\ pc = "idle"
  /\ nbatches < MaxBatches
  /\ ~(body_complete(b) /\ commands_known(b))
  /\ response' =
       [status |-> "400",
        reason |-> IF ~body_complete(b)
                     THEN "Needs commands and orgs arrays of same length."
                     ELSE "Unknown command. Not in known_commands",
        results |-> <<>>]
  /\ body' = b
  /\ results' = <<>>
  /\ nstmt' = 0
  /\ trace' = <<>>
  /\ error' = NoError
  /\ dispatched' = <<>>
  /\ before' = persisted
  /\ answer' = NoAnswer
  /\ nbatches' = nbatches + 1
  /\ UNCHANGED <<persisted, db, org_seq, contact_seq, family, pc, created>>

\* lines 811-835 when the checks pass: results = [] and the try block starts
StartBatch(b) ==
  /\ pc = "idle"
  /\ nbatches < MaxBatches
  /\ body_complete(b) /\ commands_known(b)
  /\ body' = b
  /\ results' = <<>>
  /\ dispatched' = <<>>
  /\ nstmt' = 0
  /\ trace' = <<>>
  /\ error' = NoError
  /\ before' = persisted
  /\ response' = NoResponse
  /\ pc' = "run"
  /\ answer' = NoAnswer
  /\ nbatches' = nbatches + 1
  /\ UNCHANGED <<persisted, db, org_seq, contact_seq, family, created>>

\* the position the loop of line 837 handles next
next_item == Len(results) + 1

\* the result is put in front of the list
results_prepend(rs, command, value) == <<<<command, value>>>> \o rs

\* results.append((command, known_commands[command](org))), line 838
results_append(rs, command, value) == Append(rs, <<command, value>>)

\* the effect of the writer call of position i with outcome r: its result
\* is appended (line 838) or the exception is caught (line 839)
dispatch_outcome(i, r) ==
  /\ db' = r.ctx.db
  /\ persisted' = r.ctx.persisted
  /\ org_seq' = r.ctx.org_seq
  /\ contact_seq' = r.ctx.contact_seq
  /\ nstmt' = r.ctx.nstmt
  /\ trace' = r.ctx.trace
  /\ dispatched' = Append(dispatched, i)
  /\ IF r.raised
       THEN /\ pc' = "failed"
            /\ error' = [err |-> r.err, msg |-> r.msg]
            /\ UNCHANGED results
       ELSE /\ results' = results_append(results, body["commands"][i], r.value)
            /\ UNCHANGED <<pc, error>>

\* one iteration of the loop of lines 837-838: the writer of the next pair
\* is called; it returns and its result is appended, or it raises
DispatchItem ==
  /\ pc = "run"
  /\ next_item <= Len(body["commands"])
  /\ dispatch_outcome(next_item,
       run_command(Ctx, body["commands"][next_item], body["orgs"][next_item]))
  /\ UNCHANGED <<family, body, response, before, created, answer, nbatches>>

\* lines 844-848: the loop ended without an exception
CommitBatch ==
  /\ pc = "run"
  /\ next_item > Len(body["commands"])
  /\ LET c == commit_transaction(Ctx)
     IN /\ persisted' = c.persisted
        /\ trace' = c.trace
  /\ response' = [status |-> "200", reason |-> "", results |-> results]
  /\ created' = created \cup
       {org_new_row(body["orgs"][i], results[i][2]) :
          i \in {j \in 1..Len(results) : results[j][1] = "create"}}
  /\ pc' = "idle"
  /\ UNCHANGED <<db, org_seq, contact_seq, family, body, results, dispatched,
                 nstmt, error, before, answer, nbatches>>

\* lines 839-843: the except clause
FailBatch ==
  /\ pc = "failed"
  /\ LET c == rollback_transaction(Ctx)
     IN /\ db' = c.db
        /\ trace' = c.trace
  /\ response' = [status |-> "400",
                  reason |-> "Commit failed, see server logs.",
                  results |-> <<>>]
  /\ pc' = "idle"
  /\ UNCHANGED <<persisted, org_seq, contact_seq, family, body, results,
                 dispatched, nstmt, error, before, created, answer, nbatches>>

\* ---------------------------------------------------------- read endpoints
\* the effect of a read request on the connection: its statements run with
\* end_transaction=True.  nstmt, trace and the other records of the last
\* batch request are left as they are.
read_outcome(c) ==
  /\ db' = c.db
  /\ persisted' = c.persisted
  /\ UNCHANGED <<org_seq, contact_seq, family, pc, body, results, dispatched,
                 nstmt, trace, error, response, before, created, nbatches>>

\* GET /org/manual/{id}: the aggregate, or the empty dict
get_manual_org_details(id) ==
  /\ pc = "idle"
  /\ LET q == db_query_org(Ctx, id, TRUE)
     IN /\ answer' = [endpoint |-> "org", status |-> "200", value |-> q.org]
        /\ read_outcome(q.ctx)

\* GET /org/auto/{id}: the aggregate of the automatic tables, or the empty dict
get_auto_org_details(id) ==
  /\ pc = "idle"
  /\ LET q == db_query_org_automatic(Ctx, id, TRUE)
     IN /\ answer' = [endpoint |-> "auto", status |-> "200", value |-> q.org]
        /\ read_outcome(q.ctx)

\* GET /asn/manual/{number}: the asn, or 404
get_manual_asn_details(number) ==
  /\ pc = "idle"
  /\ LET q == db_query_asn(Ctx, number, TRUE)
     IN /\ answer' = IF q.found
                       THEN [endpoint |-> "asn", status |-> "200", value |-> q.asn]
                       ELSE [endpoint |-> "asn", status |-> "404",
                             value |-> [reason |-> "ASN not found"]]
        /\ read_outcome(q.ctx)

Next ==
  \/ \E b \in Bodies[family] : RejectBatch(b)
  \/ \E b \in Bodies[family] : StartBatch(b)
  \/ DispatchItem
  \/ CommitBatch
  \/ FailBatch
  \/ \E id \in ReadOrgs[family] : get_manual_org_details(id)
  \/ \E id \in ReadOrgs[family] : get_auto_org_details(id)
  \/ \E number \in ReadAsns[family] : get_manual_asn_details(number)

Spec == Init /\ [][Next]_vars

\* ================================================================ claims
\* vocabulary of the claims, written without the operators of the model

GenericRejection ==
  [status |-> "400", reason |-> "Commit failed, see server logs.", results |-> <<>>]

\* the last request raised inside a writer
Raised == error.err # ""

\* the last request has returned
Returned == pc = "idle" /\ nbatches > 0

\* a body that violates a precondition of the batch commit
Malformed(b) ==
  \/ "commands" \notin DOMAIN b
  \/ "orgs" \notin DOMAIN b
  \/ b["commands"] = <<>>
  \/ b["orgs"] = <<>>
  \/ Len(b["commands"]) # Len(b["orgs"])
  \/ \E i \in 1..Len(b["commands"]) :
       b["commands"][i] \notin {"create", "update", "delete"}

Count(seq, x) == Cardinality({i \in 1..Len(seq) : seq[i] = x})

\* C1: when a writer call of a batch raised, the persisted tables after the
\* request has returned are those of before the batch.
C1_BatchAtomicity ==
  (Returned /\ Raised) => persisted = before

\* C2: no commit is issued while the items of a batch are processed, and a
\* batch whose items all succeeded has committed exactly once, at its end.
C2_CommitOnceAtEnd ==
  /\ pc \in {"run", "failed"} => Count(trace, "commit") = 0
  /\ (Returned /\ response.status = "200") => trace = <<"commit">>

\* C3: a body with a missing or empty array, arrays of different lengths or
\* an unknown command at any position is rejected without a statement,
\* commit, rollback or writer call; a batch is only started for other bodies.
C3_MalformedRejected ==
  /\ pc \in {"run", "failed"} => ~Malformed(body)
  /\ (Returned /\ Malformed(body)) =>
       /\ response.status = "400"
       /\ response.reason # GenericRejection.reason
       /\ response.results = <<>>
       /\ nstmt = 0
       /\ trace = <<>>
       /\ dispatched = <<>>
       /\ persisted = before
       /\ db = before

C3_Witness ==
  /\ Returned
  /\ body = [commands |-> <<"create", "merge">>, orgs |-> <<Base, Base>>]
  /\ response.status = "400"

\* the rows of table t that carry the six values of payload o, None
\* standing for '' in the five text fields and an omitted, None or ''
\* sector standing for NULL
Text(v) == IF v = None THEN "" ELSE v
SectorValue(o) ==
  IF "sector_id" \notin DOMAIN o THEN None
  ELSE IF o["sector_id"] = "" THEN None ELSE o["sector_id"]
RowsLike(t, o) ==
  {r \in t : /\ r.name = Text(o["name"])
             /\ r.comment = Text(o["comment"])
             /\ r.ripe_org_hdl = Text(o["ripe_org_hdl"])
             /\ r.ti_handle = Text(o["ti_handle"])
             /\ r.first_handle = Text(o["first_handle"])
             /\ r.sector_id = SectorValue(o)}

\* C4: when every item succeeded, the writers were called for the positions
\* 1, 2, ..., n in this order and the response lists, position by
\* position, the command and the id of the organisation written for it.
C4_OrderedResults ==
  (Returned /\ response.status = "200") =>
    /\ dispatched = [i \in 1..Len(body["commands"]) |-> i]
    /\ Len(response.results) = Len(body["commands"])
    /\ \A i \in 1..Len(response.results) :
         /\ response.results[i][1] = body["commands"][i]
         /\ body["commands"][i] = "create" =>
              \E r \in RowsLike(persisted.organisation, body["orgs"][i]) :
                r.organisation_id = response.results[i][2]

C4_Witness ==
  /\ Returned
  /\ response.status = "200"
  /\ Len(response.results) = 2
  /\ response.results[1][2] # response.results[2][2]

\* C5: after the first writer call that raises no further item is
\* dispatched, rollback is called exactly once and is the last call on the
\* transaction, and the response is the fixed generic rejection.
C5_FailFast ==
  /\ pc = "failed" =>
       /\ Raised
       /\ dispatched = [i \in 1..Len(results) + 1 |-> i]
       /\ Count(trace, "rollback") = 0
  /\ (Returned /\ Raised) =>
       /\ dispatched = [i \in 1..Len(results) + 1 |-> i]
       /\ Count(trace, "rollback") = 1
       /\ trace[Len(trace)] = "rollback"
       /\ response = GenericRejection

C5_Witness ==
  /\ Returned
  /\ Raised
  /\ Len(results) = 1
  /\ response = GenericRejection

\* the batch is inside its loop or has been committed: the ids of results
\* name rows of db
Live == pc = "run" \/ (Returned /\ response.status = "200")

\* C6: a create whose payload equals that of an earlier create of the same
\* batch, or whose values are those of a create of an earlier committed
\* batch, returns the id the earlier one returned, and exactly one
\* organisation row carries the values.
C6_CreateIdempotent ==
  Live =>
    \A j \in 1..Len(results) :
      body["commands"][j] = "create" =>
        /\ Cardinality(RowsLike(db.organisation, body["orgs"][j])) = 1
        /\ \A i \in 1..(j - 1) :
             (body["commands"][i] = "create" /\ body["orgs"][i] = body["orgs"][j])
               => results[i][2] = results[j][2]
        /\ \A r \in RowsLike(created, body["orgs"][j]) :
             r.organisation_id = results[j][2]

\* the second batch repeats, twice, the create of the first batch
C6_Witness ==
  /\ Returned
  /\ nbatches = 2
  /\ response.status = "200"
  /\ body["commands"] = <<"create", "create">>
  /\ body["orgs"][1] = body["orgs"][2]
  /\ results[1][2] = results[2][2]
  /\ results[1][2] > MaxInitOrgs
  /\ \E r \in before.organisation : r.organisation_id = results[1][2]

\* C7: the row a create returns has sector NULL when the payload omits the
\* sector or gives it as None or '', and the sector of the payload
\* otherwise; a row of that kind that existed before the batch is the one
\* that is returned.
C7_SectorNullMatching ==
  Live =>
    \A j \in 1..Len(results) :
      body["commands"][j] = "create" =>
        /\ \E r \in db.organisation :
             /\ r.organisation_id = results[j][2]
             /\ r.sector_id = SectorValue(body["orgs"][j])
        /\ \A r \in RowsLike(before.organisation, body["orgs"][j]) :
             r.organisation_id = results[j][2]

\* a payload with sector '' next to a stored row that differs in nothing
\* but its sector: a new row is inserted
C7_Witness ==
  /\ Returned
  /\ response.status = "200"
  /\ \E j \in 1..Len(results) :
       /\ body["commands"][j] = "create"
       /\ "sector_id" \in DOMAIN body["orgs"][j]
       /\ body["orgs"][j]["sector_id"] = ""
       /\ \E r \in before.organisation :
            /\ r.sector_id = "s1"
            /\ r.name = body["orgs"][j]["name"]
            /\ r.organisation_id # results[j][2]

\* a payload that passes the checks of createOrganisation
Complete(o) ==
  /\ {"name", "comment", "ripe_org_hdl", "ti_handle", "first_handle"} \subseteq DOMAIN o
  /\ Text(o["name"]) # ""

OrgValidationMessages ==
  {"name not set", "comment not set", "ripe_org_hdl not set",
   "ti_handle not set", "first_handle not set",
   "Name of the organisation must be provided."}

DuplicateMessage == "More than one organisation row like"

\* the writer of position k is about to be called with command c
About(k, c) ==
  /\ pc = "run"
  /\ k = Len(results) + 1
  /\ k <= Len(body["commands"])
  /\ body["commands"][k] = c

\* C8: a create whose payload is matched by more than one organisation row
\* raises the duplicate error and changes no table and no id generator; a
\* create matched by at most one row does not raise it.
C8_DuplicateRowsRejected ==
  [][\A k \in 1..MaxBatchLen + 1 :
       (About(k, "create") /\ Complete(body["orgs"][k])) =>
         LET n == Cardinality(RowsLike(db.organisation, body["orgs"][k])) IN
         /\ n > 1 <=> (pc' = "failed" /\ error'.msg = DuplicateMessage)
         /\ n > 1 => /\ db' = db
                     /\ persisted' = persisted
                     /\ org_seq' = org_seq
                     /\ contact_seq' = contact_seq]_vars

C8_Witness ==
  /\ pc = "failed"
  /\ error.msg = DuplicateMessage
  /\ Cardinality(RowsLike(db.organisation, body["orgs"][Len(dispatched)])) = 2

\* C9: a create whose payload lacks one of the five attributes, or whose
\* name is None or '', raises a validation error without a statement;
\* any other payload reaches the database, and the row returned for it
\* carries '' where the payload carries None.
C9_CreateValidation ==
  [][\A k \in 1..MaxBatchLen + 1 :
       About(k, "create") =>
         LET o == body["orgs"][k] IN
         /\ ~Complete(o) =>
              /\ pc' = "failed"
              /\ error'.err = "CommitError"
              /\ error'.msg \in OrgValidationMessages
              /\ nstmt' = nstmt
              /\ trace' = trace
              /\ db' = db
              /\ persisted' = persisted
         /\ Complete(o) =>
              /\ nstmt' > nstmt
              /\ pc' = "run" =>
                   \E r \in RowsLike(db'.organisation, o) :
                     r.organisation_id = results'[k][2]]_vars

\* the second create of a batch lacks ti_handle
C9_Witness ==
  /\ pc = "failed"
  /\ error.msg = "ti_handle not set"
  /\ Len(results) = 1
  /\ nstmt > 0

\* C10: an update raises "not in db" exactly when no organisation row has
\* the id of the payload, and does not raise at all for the id of a stored
\* row and a payload with a name.
C10_UpdateFailsIffMissing ==
  (pc = "failed" /\ body["commands"][Len(dispatched)] = "update"
     /\ "id" \in DOMAIN body["orgs"][Len(dispatched)]) =>
    LET o      == body["orgs"][Len(dispatched)]
        stored == \E r \in db.organisation : r.organisation_id = o["id"]
    IN /\ error.msg = "Org to be updated not in db." <=> ~stored
       /\ ~(stored /\ "name" \in DOMAIN o /\ Text(o["name"]) # "")

\* what database d stores for organisation id, contacts without their ids
LinkedAsns(d, id) == {l.asn : l \in {m \in d.organisation_to_asn : m.organisation_id = id}}
AnnotationsOf(d, number) ==
  {a.annotation : a \in {b \in d.autonomous_system_annotation : b.asn = number}}
ContactsOf(d, id) == {c \in d.contact : c.organisation_id = id}
ContactFields(c) ==
  [k \in {"firstname", "lastname", "tel", "openpgp_fpr", "email", "comment"} |-> c[k]]

\* database d stores for organisation id what payload o says: its six
\* values, its asns with their annotations and its contacts
Carries(d, id, o) ==
  /\ \E r \in RowsLike(d.organisation, o) : r.organisation_id = id
  /\ LinkedAsns(d, id) = {o["asns"][i]["asn"] : i \in 1..Len(o["asns"])}
  /\ \A i \in 1..Len(o["asns"]) :
       AnnotationsOf(d, o["asns"][i]["asn"]) =
         {o["asns"][i]["annotations"][n] : n \in 1..Len(o["asns"][i]["annotations"])}
  /\ Cardinality(ContactsOf(d, id)) = Len(o["contacts"])
  /\ {ContactFields(c) : c \in ContactsOf(d, id)} =
       {ContactFields(o["contacts"][i]) : i \in 1..Len(o["contacts"])}

\* item j repeats the payload of the create of item i with the id it returned
RoundTrip(i, j) ==
  /\ i < j
  /\ i <= Len(results)
  /\ body["commands"][i] = "create"
  /\ body["commands"][j] = "update"
  /\ body["orgs"][j] =
       [k \in DOMAIN body["orgs"][i] \cup {"id"} |->
          IF k = "id" THEN results[i][2] ELSE body["orgs"][i][k]]

\* C11: an update that repeats the payload of an earlier create of the
\* batch with the id it returned succeeds, returns that id, and the
\* organisation still carries the values, asns, annotations and contacts of
\* the payload.
C11_UpdateRoundTrip ==
  (pc \in {"run", "failed"} /\ dispatched # <<>>) =>
    LET j == Len(dispatched) IN
    (\E i \in 1..(j - 1) : RoundTrip(i, j)) =>
      /\ pc = "run"
      /\ results[j] = <<"update", body["orgs"][j]["id"]>>
      /\ Carries(db, body["orgs"][j]["id"], body["orgs"][j])

\* the aggregate GET /org/manual/{id} returns from database d
ReadBack(d, id) ==
  db_query_org([db |-> d, persisted |-> d, org_seq |-> 1, contact_seq |-> 1,
                nstmt |-> 0, trace |-> <<>>], id, TRUE).org

\* the organisation a delete payload names
TargetId(o) ==
  IF "id" \in DOMAIN o THEN o["id"]
  ELSE IF "organisation_id" \in DOMAIN o THEN o["organisation_id"] ELSE NoId

\* payload o is, apart from a key id that repeats organisation_id, the
\* aggregate that database d stores for the organisation it names
SameAsStored(d, o) ==
  /\ TargetId(o) # NoId
  /\ ReadBack(d, TargetId(o)) = [k \in DOMAIN o \ {"id"} |-> o[k]]

\* C12: a delete whose payload differs from the stored aggregate raises a
\* consistency error and leaves the tables as they are; a delete whose
\* payload is the stored aggregate returns the id, and the organisation row
\* is gone.
C12_DeleteSafety ==
  [][\A k \in 1..MaxBatchLen + 1 :
       About(k, "delete") =>
         LET o == body["orgs"][k] IN
         /\ ("id" \in DOMAIN o /\ ~SameAsStored(db, o)) =>
              /\ pc' = "failed"
              /\ error'.err = "CommitError"
              /\ db' = db
         /\ SameAsStored(db, o) =>
              /\ pc' = "run"
              /\ results'[k] = <<"delete", TargetId(o)>>
              /\ \A r \in db'.organisation : r.organisation_id # TargetId(o)]_vars

\* C13: a delete that names an organisation whose row is gone, as the
\* second of two deletes with the same payload does, returns nothing, raises
\* no error and changes no table.
C13_DeleteOfGoneRowIsNoOp ==
  [][\A k \in 1..MaxBatchLen + 1 :
       (About(k, "delete") /\ "id" \in DOMAIN body["orgs"][k]
          /\ \A r \in db.organisation :
               r.organisation_id # body["orgs"][k]["id"]) =>
         /\ pc' = "run"
         /\ results'[k] = <<"delete", NoId>>
         /\ db' = db]_vars

\* the organisations that database d links to asn number
LinkedOrgs(d, number) ==
  {l.organisation_id : l \in {m \in d.organisation_to_asn : m.asn = number}}

\* C14: a delete of an organisation, sent with its stored aggregate, that
\* links an asn another organisation links too succeeds, removes its own
\* link to the asn and leaves the links of the other organisations and the
\* annotations of the asn in place.
C14_SharedAsnKept ==
  [][\A k \in 1..MaxBatchLen + 1 :
       (About(k, "delete") /\ SameAsStored(db, body["orgs"][k])) =>
         LET id == TargetId(body["orgs"][k]) IN
         \A number \in LinkedAsns(db, id) :
           LinkedOrgs(db, number) # {id} =>
             /\ pc' = "run"
             /\ LinkedOrgs(db', number) = LinkedOrgs(db, number) \ {id}
             /\ AnnotationsOf(db', number) = AnnotationsOf(db, number)]_vars

\* C15: a delete of an organisation, sent with its stored aggregate (so
\* that every asn entry of the payload is the stored state of the asn), that
\* holds the only link to an asn succeeds and leaves neither a link to the
\* asn nor an annotation of it; it raises an error naming the asn only when
\* the entry of the payload differs from the stored state.
C15_LastLinkRemovesAsn ==
  [][\A k \in 1..MaxBatchLen + 1 :
       (About(k, "delete") /\ SameAsStored(db, body["orgs"][k])) =>
         LET id == TargetId(body["orgs"][k]) IN
         \A number \in LinkedAsns(db, id) :
           LinkedOrgs(db, number) = {id} =>
             /\ pc' = "run"
             /\ LinkedOrgs(db', number) = {}
             /\ AnnotationsOf(db', number) = {}]_vars

\* a contact that carries the six fields, none of them None
ContactComplete(c) ==
  \A f \in {"firstname", "lastname", "tel", "openpgp_fpr", "email", "comment"} :
    f \in DOMAIN c /\ c[f] # None

\* a create of payload o in database d gets as far as the reconcilers and
\* hands them well-formed lists
Reconciles(d, o) ==
  /\ Complete(o)
  /\ Cardinality(RowsLike(d.organisation, o)) <= 1
  /\ {"asns", "contacts"} \subseteq DOMAIN o
  /\ \A i \in 1..Len(o["asns"]) : {"asn", "annotations"} \subseteq DOMAIN o["asns"][i]
  /\ \A i \in 1..Len(o["contacts"]) : ContactComplete(o["contacts"][i])

DesiredAsns(o) == {o["asns"][i]["asn"] : i \in 1..Len(o["asns"])}

\* C16: when a create reconciles the asns of its organisation, whatever
\* links and annotations are stored, the organisation is afterwards linked
\* to exactly the asns of the payload and the links of the other
\* organisations are as before.
C16_LinkDiff ==
  [][\A k \in 1..MaxBatchLen + 1 :
       (About(k, "create") /\ Reconciles(db, body["orgs"][k])) =>
         /\ pc' = "run"
         /\ LinkedAsns(db', results'[k][2]) = DesiredAsns(body["orgs"][k])
         /\ {l \in db'.organisation_to_asn : l.organisation_id # results'[k][2]}
              = {l \in db.organisation_to_asn : l.organisation_id # results'[k][2]}]_vars

\* C17: when a create reconciles the asns of its organisation, every asn of
\* the payload has afterwards exactly the annotations its entry lists, and
\* the annotation rows of an asn whose entry lists the stored annotations
\* are as before.
C17_AnnotationDiff ==
  [][\A k \in 1..MaxBatchLen + 1 :
       (About(k, "create") /\ Reconciles(db, body["orgs"][k])) =>
         LET asns == body["orgs"][k]["asns"] IN
         \A i \in 1..Len(asns) :
           /\ AnnotationsOf(db', asns[i]["asn"]) =
                {asns[i]["annotations"][n] : n \in 1..Len(asns[i]["annotations"])}
           /\ AnnotationsOf(db, asns[i]["asn"]) =
                {asns[i]["annotations"][n] : n \in 1..Len(asns[i]["annotations"])}
                => {a \in db'.autonomous_system_annotation : a.asn = asns[i]["asn"]}
                     = {a \in db.autonomous_system_annotation : a.asn = asns[i]["asn"]}]_vars

\* the rows of table t and the entries of list l with the six fields of f
RowsWith(t, f) == {c \in t : ContactFields(c) = f}
EntriesWith(l, f) == {i \in 1..Len(l) : ContactFields(l[i]) = f}

\* C18: after a create that succeeded, the contacts of its organisation are
\* new rows, one per contact of the payload and with its six values,
\* whatever was stored before, and the contacts of the other organisations
\* are as before.
C18_ContactsReplaced ==
  [][\A k \in 1..MaxBatchLen + 1 :
       (About(k, "create") /\ pc' = "run") =>
         LET id      == results'[k][2]
             desired == body["orgs"][k]["contacts"]
             now     == ContactsOf(db', id)
         IN /\ Cardinality(now) = Len(desired)
            /\ \A c \in now : EntriesWith(desired, ContactFields(c)) # {}
            /\ \A i \in 1..Len(desired) :
                 Cardinality(RowsWith(now, ContactFields(desired[i])))
                   = Cardinality(EntriesWith(desired, ContactFields(desired[i])))
            /\ now \cap ContactsOf(db, id) = {}
            /\ {c \in db'.contact : c.organisation_id # id}
                 = {c \in db.contact : c.organisation_id # id}]_vars

\* organisation 1 had two contacts, organisation 2 one; a create reusing
\* organisation 1 with one contact has replaced the two
C18_Witness ==
  /\ pc = "run"
  /\ Len(results) = 1
  /\ results[1] = <<"create", 1>>
  /\ Len(body["orgs"][1]["contacts"]) = 1
  /\ Cardinality(ContactsOf(before, 1)) = 2
  /\ Cardinality(ContactsOf(db, 1)) = 1
  /\ ContactsOf(db, 1) \cap ContactsOf(before, 1) = {}
  /\ ContactsOf(db, 2) = ContactsOf(before, 2)
  /\ ContactsOf(db, 2) # {}

C20_NoNullAnnotations ==
  /\ (answer.endpoint = "asn" /\ answer.status = "200") =>
       /\ answer.value.annotations # NoneList
       /\ AnnotationsOf(db, answer.value.asn) = {} =>
            answer.value.annotations = <<>>
  /\ (answer.endpoint = "org" /\ DOMAIN answer.value # {}) =>
       /\ answer.value.annotations # NoneList
       /\ (\A a \in db.organisation_annotation :
              a.organisation_id # answer.value.organisation_id) =>
            answer.value.annotations = <<>>

\* the automatic tables of database d
Automatic(d) ==
  <<d.organisation_automatic, d.organisation_to_asn_automatic, d.contact_automatic>>

\* C21: no step of a read request or of a batch, committed or failed,
\* changes a row of the automatic tables, in the open transaction or in
\* what is persisted.
C21_AutomaticUntouched ==
  [][/\ Automatic(db') = Automatic(db)
     /\ Automatic(persisted') = Automatic(persisted)]_vars

\* after a batch that was committed and changed the manual tables, the
\* automatic aggregate of organisation 1 has been read
C21_Witness ==
  /\ Returned
  /\ response.status = "200"
  /\ persisted # before
  /\ answer.endpoint = "auto"
  /\ DOMAIN answer.value # {}
  /\ Automatic(persisted) = <<AutomaticOrgs, AutomaticLinks, AutomaticContacts>>

NameMissing(o) == "name" \notin DOMAIN o \/ Text(o["name"]) = ""

\* C22: an update of a stored organisation whose payload has no name (absent,
\* None or '') raises the name validation error and has written nothing; an
\* update with a name and well-formed lists reaches its last statement,
\* after which the asns and contacts are reconciled and the organisation
\* row carries the six values of the payload ('' as sector stored as NULL).
C22_UpdateOrdering ==
  [][\A k \in 1..MaxBatchLen + 1 :
       (About(k, "update") /\ "id" \in DOMAIN body["orgs"][k]
          /\ \E r \in db.organisation :
               r.organisation_id = body["orgs"][k]["id"]) =>
         LET o == body["orgs"][k] IN
         /\ NameMissing(o) =>
              /\ pc' = "failed"
              /\ error'.msg = "Name of the organisation must be provided."
              /\ db' = db
         /\ (~NameMissing(o) /\ {"asns", "contacts", "sector_id"} \subseteq DOMAIN o) =>
              /\ pc' = "run"
              /\ LinkedAsns(db', o["id"]) = DesiredAsns(o)
              /\ Cardinality(ContactsOf(db', o["id"])) = Len(o["contacts"])
              /\ \E r \in RowsLike(db'.organisation, o) :
                   r.organisation_id = o["id"]]_vars

\* C23: after a create that succeeded, and so has reconciled the asns of
\* its organisation, every annotation belongs to an asn that some
\* organisation is linked to, and the annotations of an asn that the
\* organisation was unlinked from while another organisation is linked to
\* it are as before.
C23_GlobalAnnotationCleanup ==
  [][\A k \in 1..MaxBatchLen + 1 :
       (About(k, "create") /\ pc' = "run") =>
         LET id == results'[k][2] IN
         /\ \A a \in db'.autonomous_system_annotation : LinkedOrgs(db', a.asn) # {}
         /\ \A number \in LinkedAsns(db, id) \ LinkedAsns(db', id) :
              LinkedOrgs(db', number) # {} =>
                AnnotationsOf(db', number) = AnnotationsOf(db, number)]_vars

\* a create reusing organisation 1 has unlinked it from an annotated asn
\* that another organisation is linked to
C23_Witness ==
  /\ pc = "run"
  /\ Len(results) = 1
  /\ results[1] = <<"create", 1>>
  /\ \E number \in LinkedAsns(before, 1) \ LinkedAsns(db, 1) :
       /\ LinkedOrgs(db, number) # {}
       /\ AnnotationsOf(db, number) # {}
       /\ AnnotationsOf(db, number) = AnnotationsOf(before, number)

Lacks(contact, attrib) == attrib \notin DOMAIN contact \/ contact[attrib] = None
Invalid(contacts) ==
  {i \in 1..Len(contacts) :
     \E n \in 1..Len(contact_needed_attribs) :
       Lacks(contacts[i], contact_needed_attribs[n])}
FirstLacking(contact) ==
  contact_needed_attribs[
    Min({n \in 1..Len(contact_needed_attribs) :
           Lacks(contact, contact_needed_attribs[n])})]
ContactMessages ==
  {contact_needed_attribs[n] \o " not set" : n \in 1..Len(contact_needed_attribs)}

\* C24: a create that gets as far as its contacts (its own fields are
\* complete, at most one row is like it, it has no asns) and has a contact
\* with a field that is absent or None raises, with the message naming the
\* first such field of the first such contact; and when a batch that was
\* stopped by a message of this kind returns, the contact table is the one
\* from before the batch, stored and as seen by the next transaction.
C24_InvalidContactRollsBack ==
  [][/\ \A k \in 1..MaxBatchLen + 1 :
          (/\ About(k, "create")
           /\ Complete(body["orgs"][k])
           /\ {"asns", "contacts"} \subseteq DOMAIN body["orgs"][k]
           /\ Cardinality(RowsLike(db.organisation, body["orgs"][k])) <= 1
           /\ body["orgs"][k]["asns"] = <<>>
           /\ Invalid(body["orgs"][k]["contacts"]) # {}) =>
            LET contacts == body["orgs"][k]["contacts"] IN
            /\ pc' = "failed"
            /\ error'.err = "CommitError"
            /\ error'.msg = FirstLacking(contacts[Min(Invalid(contacts))]) \o " not set"
     /\ (pc = "failed" /\ pc' = "idle" /\ error.msg \in ContactMessages) =>
          /\ persisted'.contact = before.contact
          /\ db'.contact = before.contact
          /\ response' = GenericRejection]_vars

\* organisation 1 has its two contacts after a batch in which a create
\* reusing it had deleted them and inserted one contact (the id generator
\* has moved) before it met a contact whose tel is None
C24_Witness ==
  /\ Returned
  /\ error.msg = "tel not set"
  /\ Len(body["orgs"][Len(results) + 1]["contacts"]) = 2
  /\ RowsLike(before.organisation, body["orgs"][Len(results) + 1])
       = {r \in before.organisation : r.organisation_id = 1}
  /\ Cardinality(ContactsOf(before, 1)) = 2
  /\ ContactsOf(persisted, 1) = ContactsOf(before, 1)
  /\ ContactsOf(db, 1) = ContactsOf(before, 1)
  /\ contact_seq > InitContactSeq(persisted)

\* no two rows agree on name, comment, the three handles and the sector
Unique(t) ==
  \A r \in t, q \in t :
    (/\ r.name = q.name
     /\ r.comment = q.comment
     /\ r.ripe_org_hdl = q.ripe_org_hdl
     /\ r.ti_handle = q.ti_handle
     /\ r.first_handle = q.first_handle
     /\ r.sector_id = q.sector_id) => r = q

\* C25: no step takes an organisation table without two like rows, stored
\* or as the open transaction sees it, to one with two like rows, and on a
\* table without two like rows no writer raises the more-than-one-row
\* error.
C25_UniquenessPreserved ==
  [][/\ Unique(persisted.organisation) => Unique(persisted'.organisation)
     /\ Unique(db.organisation) =>
          /\ Unique(db'.organisation)
          /\ error'.msg # DuplicateMessage]_vars

\* the second committed batch, on a table that had a row before the first:
\* one create reused a row, one inserted a row, and no two rows are alike
C25_Witness ==
  /\ Returned
  /\ nbatches = 2
  /\ response.status = "200"
  /\ Len(results) = 2
  /\ \E r \in before.organisation : r.organisation_id = results[1][2]
  /\ \A r \in before.organisation : r.organisation_id # results[2][2]
  /\ \E r \in persisted.organisation : r.organisation_id <= MaxInitOrgs
  /\ created # {}
  /\ Unique(persisted.organisation)

\* C26: a create whose payload is like exactly one stored row returns the
\* id of that row, and afterwards the organisation is linked to exactly the
\* asns of the payload and has exactly one contact per contact of the
\* payload, with its values, whatever links and contacts were stored.
C26_ReuseReplacesChildren ==
  [][\A k \in 1..MaxBatchLen + 1 :
       (/\ About(k, "create")
        /\ Reconciles(db, body["orgs"][k])
        /\ Cardinality(RowsLike(db.organisation, body["orgs"][k])) = 1) =>
         LET o   == body["orgs"][k]
             id  == (CHOOSE r \in RowsLike(db.organisation, o) : TRUE).organisation_id
             now == ContactsOf(db', id)
         IN /\ pc' = "run"
            /\ results'[k] = <<"create", id>>
            /\ db'.organisation = db.organisation
            /\ LinkedAsns(db', id) = DesiredAsns(o)
            /\ Cardinality(now) = Len(o["contacts"])
            /\ \A c \in now : EntriesWith(o["contacts"], ContactFields(c)) # {}
            /\ \A i \in 1..Len(o["contacts"]) :
                 RowsWith(now, ContactFields(o["contacts"][i])) # {}]_vars

====
